---- MODULE Spec2Model ----
(***************************************************************************)
(* Extension build-and-execution pipeline of SuperCommand.                 *)
(*                                                                         *)
(*   main/extension-runner.ts      discovery, dependency provisioning,     *)
(*                                 cached compilation, bundle host         *)
(*   renderer/src/smart-calculator.ts (ExtensionView part)                 *)
(*                                 sandbox loader, command lifecycle       *)
(*                                                                         *)
(* Each subsystem has its own specification over the shared variables:     *)
(*   SpecCompile   buildExtensionCommand on a file system whose files      *)
(*                 carry modification times                                *)
(*   SpecList      discoverInstalledExtensionCommands over an extensions   *)
(*                 root holding well-formed and malformed manifests        *)
(*   SpecHost      getExtensionBundle: the compiled text with the title    *)
(*                 and mode it reads back from the manifest                *)
(*   SpecLoad      loadExtensionExport: global injection, the synthetic    *)
(*                 require, the export it hands back                       *)
(*   SpecView      ExtensionView, SafeViewRenderer, NoViewRunner and the   *)
(*                 error boundary: one command session                     *)
(***************************************************************************)
EXTENDS Integers, Sequences, FiniteSets, TLC

(***************************************************************************)
(* Bounds of the model.                                                    *)
(***************************************************************************)
MaxTime == 2        \* the clock runs over 0..MaxTime (mtime ticks)
MaxContent == 1     \* source contents 0..MaxContent; content 0 does not compile
MaxCmds == 3        \* a manifest declares at most MaxCmds commands
MaxRequires == 2    \* a bundle makes at most MaxRequires require() calls
MaxStack == 2       \* the navigation stack holds at most MaxStack frames
MaxIds == 2         \* the host hands over at most MaxIds onClose callbacks
MaxEntryCalls == 4  \* the entry function is called at most MaxEntryCalls times
MaxCloses == 2      \* onClose is invoked at most MaxCloses times

VARIABLES
  \* ---- file system of one extension, one command (extension-runner.ts)
  now,          \* the clock that stamps modification times
  extDir,       \* <extensions>/<extName> exists
  pkg,          \* package.json: "missing" | "malformed" | "nodeps" | "deps"
  nodeModules,  \* <ext>/node_modules exists
  srcFiles,     \* candidate entry files under <ext>/src
  buildDir,     \* <ext>/.sc-build exists
  outFile,      \* <ext>/.sc-build/<cmd>.js
  \* ---- calls of buildExtensionCommand
  pc,           \* per caller: "idle" | "installing" | "building" | "done"
  cur,          \* per caller: what the running / last call did and returned
  prev,         \* the call completed before the current one (sequential use)
  dirty,        \* an entry candidate was modified since the current call began
  \* ---- discovery (extension-runner.ts)
  root,         \* the extensions root: whether it exists, and its entries
  listed,       \* the last discoverInstalledExtensionCommands() call's outcome
  \* ---- bundle host (extension-runner.ts)
  bundleCall,   \* a getExtensionBundle call: what compile gave, the manifest
  bundleRet,    \* what the call returned
  \* ---- sandbox loader (smart-calculator.ts, ExtensionView part)
  globals,      \* globalThis.process / Buffer / global, globalThis: who provides each
  code,         \* the bundle this session loads
  lastLoad,     \* the last loadExtensionExport(code) call's outcome
  \* ---- command lifecycle (smart-calculator.ts, ExtensionView part)
  mode,           \* the declared mode prop
  loaded,         \* ExtExport is a function (the load did not fail)
  mounted,        \* ExtensionView is mounted
  error,          \* ExtensionView's error state
  navStack,       \* ExtensionView's navStack state
  detectedNoView, \* ExtensionView's detectedNoView state
  view,           \* SafeViewRenderer: mounted, the probe, the memoised element
  boundary,       \* ExtensionErrorBoundary's state.error
  runner,         \* NoViewRunner: mounted, status, errorMsg
  runs,           \* the effect runs of NoViewRunner whose fn() is outstanding
  timers,         \* pending setTimeout(() => onClose(), 600), by callback
  onCloseId,      \* the identity of the onClose prop
  closeCalls,     \* how often onClose was invoked
  entryCalls,     \* how often the entry function was invoked
  lastClose       \* what invoked onClose last

fsVars == <<now, extDir, pkg, nodeModules, srcFiles, buildDir, outFile>>
callVars == <<pc, cur, prev, dirty>>
listVars == <<root, listed>>
hostVars == <<bundleCall, bundleRet>>
loadVars == <<globals, code, lastLoad>>
viewVars == <<mode, loaded, mounted, error, navStack, detectedNoView, view, boundary,
              runner, runs, timers, onCloseId, closeCalls, entryCalls, lastClose>>
vars == <<fsVars, callVars, listVars, hostVars, loadVars, viewVars>>
notCompile == <<listVars, hostVars, loadVars, viewVars>>
notList == <<fsVars, callVars, hostVars, loadVars, viewVars>>
notHost == <<fsVars, callVars, listVars, loadVars, viewVars>>
notLoad == <<fsVars, callVars, listVars, hostVars, viewVars>>
notView == <<fsVars, callVars, listVars, hostVars, loadVars>>

(***************************************************************************)
(* Values.                                                                 *)
(***************************************************************************)
Times == 0..MaxTime
Contents == 0..MaxContent
Callers == {1, 2}

\* bundle text; NullText stands for the null that compile returns on failure
NullText == [kind |-> "null", from |-> 0]
\* what esbuild emits for an entry whose content is c
BundleText(c) == [kind |-> "cjs", from |-> c]

AbsentSrc == [exists |-> FALSE, mtime |-> 0, content |-> 0]
AbsentOut == [exists |-> FALSE, mtime |-> 0, text |-> NullText]

\* resolveEntryFile's candidates, in its order, for the command "cmd"
Candidates == <<"cmd.tsx", "cmd.ts", "cmd.jsx", "cmd.js", "index.tsx", "index.ts">>
CandidateSet == {Candidates[i] : i \in 1..Len(Candidates)}
NoEntry == "none"
\* the candidate the environment writes under SpecCompile
OneEntry == {"cmd.tsx"}

Min(S) == CHOOSE x \in S : \A y \in S : x <= y

\* candidates.find(p => fs.existsSync(p)) || null
resolveEntryFile(files) ==
  LET found == {i \in 1..Len(Candidates) : files[Candidates[i]].exists}
  IN  IF found = {} THEN NoEntry ELSE Candidates[Min(found)]

\* ensureDepsInstalled: does it reach `npm install`?
NeedsInstallWheneverDeps(nm, p) == p = "deps"
NeedsInstall(nm, p) == ~nm /\ p = "deps"

\* the cache test: outMtime > srcMtime
CacheFreshGe(outM, srcM) == outM >= srcM
CacheFresh(outM, srcM) == outM > srcM

\* esbuild.build resolves (and writes the outfile) or rejects
BundlerOk(c) == c > 0

\* what the call returns once esbuild has failed: the catch logs, then
\* `return null` (out is the cache file as it stands)
FailedBuildReturnStale(out) == out.text
FailedBuildReturn(out) == NullText

\* lines 279-281: after the build the call returns what the output file
\* holds, if it exists
ReadOutNothing(out) == NullText
ReadOut(out) == IF out.exists THEN out.text ELSE NullText

\* how the cache file stood against the entry when the call tested it
CacheRelation(out, srcM) ==
  IF ~out.exists THEN "absent"
  ELSE IF out.mtime > srcM THEN "newer"
  ELSE IF out.mtime = srcM THEN "equal"
  ELSE "older"

\* a call's record: ret and entry are the code's values, snap is the entry
\* content esbuild read; built, installed, cache and clean are history
IdleCall == [ret |-> NullText, built |-> FALSE, installed |-> FALSE,
             cache |-> "absent", clean |-> FALSE, entry |-> NoEntry, snap |-> 0]
NoPrev == [some |-> FALSE, ret |-> NullText, built |-> FALSE, cache |-> "absent"]

(***************************************************************************)
(* The environment: the clock, and edits of the extension's files.         *)
(***************************************************************************)
Tick ==
  /\ now < MaxTime
  /\ now' = now + 1
  /\ UNCHANGED <<extDir, pkg, nodeModules, srcFiles, buildDir, outFile, callVars>>
  /\ UNCHANGED notCompile

\* the extension is installed: its directory appears with one entry file
InstallExt(F) ==
  /\ ~extDir
  /\ extDir' = TRUE
  /\ \E f \in F, c \in Contents :
       srcFiles' = [srcFiles EXCEPT ![f] = [exists |-> TRUE, mtime |-> now, content |-> c]]
  /\ dirty' = TRUE
  /\ UNCHANGED <<now, pkg, nodeModules, buildDir, outFile, pc, cur, prev>>
  /\ UNCHANGED notCompile

\* an editor saves an entry candidate: new content, mtime = now
WriteSrc(F) ==
  /\ extDir
  /\ \E f \in F, c \in Contents :
       /\ srcFiles[f] # [exists |-> TRUE, mtime |-> now, content |-> c]
       /\ srcFiles' = [srcFiles EXCEPT ![f] = [exists |-> TRUE, mtime |-> now, content |-> c]]
  /\ dirty' = TRUE
  /\ UNCHANGED <<now, extDir, pkg, nodeModules, buildDir, outFile, pc, cur, prev>>
  /\ UNCHANGED notCompile

\* touch: the mtime is set to any time (utimes, an archive's stored times)
TouchSrc(F) ==
  /\ extDir
  /\ \E f \in F, t \in Times :
       /\ srcFiles[f].exists
       /\ srcFiles[f].mtime # t
       /\ srcFiles' = [srcFiles EXCEPT ![f].mtime = t]
  /\ dirty' = TRUE
  /\ UNCHANGED <<now, extDir, pkg, nodeModules, buildDir, outFile, pc, cur, prev>>
  /\ UNCHANGED notCompile

DeleteSrc(F) ==
  /\ extDir
  /\ \E f \in F :
       /\ srcFiles[f].exists
       /\ srcFiles' = [srcFiles EXCEPT ![f] = AbsentSrc]
  /\ dirty' = TRUE
  /\ UNCHANGED <<now, extDir, pkg, nodeModules, buildDir, outFile, pc, cur, prev>>
  /\ UNCHANGED notCompile

(***************************************************************************)
(* buildExtensionCommand, cut at its awaits.                               *)
(***************************************************************************)
\* lines 196-215 with node_modules as nm: resolve the entry, make the build
\* directory, test the cache; the call ends (hit, or no entry) or goes on to
\* esbuild.  c is the call's record so far.
AfterDeps(p, c) ==
  LET entry == resolveEntryFile(srcFiles)
  IN  IF entry = NoEntry
      THEN /\ pc' = [pc EXCEPT ![p] = "done"]
           /\ cur' = [cur EXCEPT ![p] = c]
           /\ UNCHANGED buildDir
      ELSE /\ buildDir' = TRUE
           /\ IF outFile.exists /\ CacheFresh(outFile.mtime, srcFiles[entry].mtime)
              THEN /\ pc' = [pc EXCEPT ![p] = "done"]
                   /\ cur' = [cur EXCEPT ![p] =
                                [c EXCEPT !.entry = entry,
                                          !.cache = CacheRelation(outFile, srcFiles[entry].mtime),
                                          !.ret = outFile.text]]
              ELSE /\ pc' = [pc EXCEPT ![p] = "building"]
                   /\ cur' = [cur EXCEPT ![p] =
                                [c EXCEPT !.entry = entry,
                                          !.built = TRUE,
                                          !.cache = CacheRelation(outFile, srcFiles[entry].mtime),
                                          !.snap = srcFiles[entry].content]]

\* the call begins: lines 190-194, and on when no install is awaited
CompileStart(p) ==
  /\ pc[p] \in {"idle", "done"}
  /\ prev' = IF pc[p] = "done"
             THEN [some |-> TRUE, ret |-> cur[p].ret, built |-> cur[p].built,
                   cache |-> cur[p].cache]
             ELSE prev
  /\ dirty' = FALSE
  /\ LET c0 == [IdleCall EXCEPT !.clean = (pc[p] = "done" /\ ~dirty)]
     IN  IF ~extDir
         THEN /\ pc' = [pc EXCEPT ![p] = "done"]
              /\ cur' = [cur EXCEPT ![p] = c0]
              /\ UNCHANGED buildDir
         ELSE IF NeedsInstall(nodeModules, pkg)
         THEN /\ pc' = [pc EXCEPT ![p] = "installing"]
              /\ cur' = [cur EXCEPT ![p] = [c0 EXCEPT !.installed = TRUE]]
              /\ UNCHANGED buildDir
         ELSE AfterDeps(p, c0)
  /\ UNCHANGED <<now, extDir, pkg, nodeModules, srcFiles, outFile>>
  /\ UNCHANGED notCompile

\* `npm install` ends (lines 171-179): node_modules appears, or the failure
\* is logged and swallowed
InstallFinish(p) ==
  /\ pc[p] = "installing"
  /\ \E ok \in BOOLEAN : nodeModules' = (nodeModules \/ ok)
  /\ AfterDeps(p, cur[p])
  /\ UNCHANGED <<now, extDir, pkg, srcFiles, outFile, prev, dirty>>
  /\ UNCHANGED notCompile

\* esbuild.build ends (lines 243-286)
BuildFinish(p) ==
  /\ pc[p] = "building"
  /\ pc' = [pc EXCEPT ![p] = "done"]
  /\ IF BundlerOk(cur[p].snap)
     THEN /\ outFile' = [exists |-> TRUE, mtime |-> now, text |-> BundleText(cur[p].snap)]
          /\ cur' = [cur EXCEPT ![p].ret = ReadOut(outFile')]
     ELSE /\ UNCHANGED outFile
          /\ cur' = [cur EXCEPT ![p].ret = FailedBuildReturn(outFile)]
  /\ UNCHANGED <<now, extDir, pkg, nodeModules, srcFiles, buildDir, prev, dirty>>
  /\ UNCHANGED notCompile

(***************************************************************************)
(* SpecCompile: one caller, calls one after the other.                     *)
(***************************************************************************)
IdleFs ==
  /\ now = 0
  /\ extDir = FALSE
  /\ pkg = "missing"
  /\ nodeModules = FALSE
  /\ srcFiles = [f \in CandidateSet |-> AbsentSrc]
  /\ buildDir = FALSE
  /\ outFile = AbsentOut
  /\ pc = [p \in Callers |-> "idle"]
  /\ cur = [p \in Callers |-> IdleCall]
  /\ prev = NoPrev
  /\ dirty = FALSE

IdleList ==
  /\ root = [exists |-> FALSE, dirs |-> <<>>]
  /\ listed = [done |-> FALSE, threw |-> FALSE, items |-> <<>>]

\* no getExtensionBundle call has been made
NoBundle ==
  [done |-> FALSE, some |-> FALSE, code |-> NullText,
   title |-> [t |-> "undef", s |-> <<>>], mode |-> [t |-> "undef", s |-> <<>>]]
IdleHost ==
  /\ bundleCall = [built |-> NullText, pkgFile |-> "missing",
                   commands |-> [t |-> "undef", items |-> <<>>]]
  /\ bundleRet = NoBundle

NoError == "<null>"
NoView == [mounted |-> FALSE, probe |-> "none", element |-> "none", inst |-> "none"]
NoRunner == [mounted |-> FALSE, status |-> "running", errorMsg |-> ""]

\* a session before anything is rendered
FreshView ==
  /\ mounted = TRUE
  /\ error = NoError
  /\ navStack = <<>>
  /\ detectedNoView = FALSE
  /\ view = NoView
  /\ boundary = NoError
  /\ runner = NoRunner
  /\ runs = <<>>
  /\ timers = {}
  /\ onCloseId = 1
  /\ closeCalls = 0
  /\ entryCalls = 0
  /\ lastClose = "none"

IdleView ==
  /\ mode = "view"
  /\ loaded = FALSE
  /\ FreshView

IdleLoad ==
  /\ globals = [g \in {"process", "Buffer", "global", "globalThis"} |->
                  IF g = "globalThis" THEN "host" ELSE "absent"]
  /\ code = [fail |-> "none", requires |-> <<>>, default |-> "absent", exports |-> "object"]
  /\ lastLoad = [done |-> FALSE, ret |-> "null", required |-> <<>>, seen |-> {}]

InitCompile ==
  /\ IdleList
  /\ IdleHost
  /\ IdleLoad
  /\ IdleView
  /\ now = 0
  /\ extDir \in BOOLEAN
  /\ pkg \in {"missing", "malformed", "nodeps", "deps"}
  /\ nodeModules = FALSE
  /\ srcFiles = [f \in CandidateSet |-> AbsentSrc]
  /\ buildDir = FALSE
  /\ outFile = AbsentOut
  /\ pc = [p \in Callers |-> "idle"]
  /\ cur = [p \in Callers |-> IdleCall]
  /\ prev = NoPrev
  /\ dirty = FALSE

NextCompile ==
  \/ Tick
  \/ InstallExt(OneEntry)
  \/ WriteSrc(OneEntry)
  \/ TouchSrc(OneEntry)
  \/ DeleteSrc(OneEntry)
  \/ CompileStart(1)
  \/ InstallFinish(1)
  \/ BuildFinish(1)

SpecCompile == InitCompile /\ [][NextCompile]_vars

(***************************************************************************)
(* Claims about the Compiler and the Build Cache (SpecCompile).            *)
(***************************************************************************)
\* the step in which call p tests the cache: the entry resolved
CacheTest(p) ==
  /\ CompileStart(p) \/ InstallFinish(p)
  /\ pc'[p] # "installing"
  /\ extDir
  /\ resolveEntryFile(srcFiles) # NoEntry

\* C1: a bundle file at the cache path is returned verbatim, without the
\* bundler, if and only if its mtime is strictly greater than the resolved
\* entry's mtime; with equal times or an older bundle the bundler is invoked.
C1_CacheHitIffStrictlyNewer ==
  [][\A p \in Callers :
       (CacheTest(p) /\ outFile.exists) =>
         LET srcM == srcFiles[resolveEntryFile(srcFiles)].mtime
         IN  IF outFile.mtime > srcM
             THEN /\ pc'[p] = "done"
                  /\ cur'[p].ret = outFile.text
                  /\ ~cur'[p].built
                  /\ outFile' = outFile
             ELSE /\ pc'[p] = "building"
                  /\ cur'[p].built]_vars

\* a call answered from the cache, and one that found the cache file with the
\* entry's own mtime and went to the bundler
C1_Witness ==
  /\ pc[1] = "done"
  /\ cur[1].cache = "newer"
  /\ ~cur[1].built
  /\ cur[1].ret = outFile.text
  /\ prev.some /\ prev.cache = "equal" /\ prev.built

\* C2: for an entry that exists and bundles, two successive compile calls
\* with no modification of the entry in between run the bundler once in
\* total: the second call does not run it and returns the first call's text.
C2_SecondCallIsCacheHit ==
  (pc[1] = "done" /\ prev.some /\ prev.ret # NullText /\ cur[1].clean /\ ~dirty)
    => (~cur[1].built /\ cur[1].ret = prev.ret)

\* C3: once the entry's mtime is later than the cached bundle's, the next
\* resolve runs the bundler once and rewrites the cache, and the resolves
\* after it, with no new edit, do not run the bundler.
C3_OneRebuildAfterTouch ==
  pc[1] = "done" =>
    /\ (cur[1].cache = "older" /\ BundlerOk(cur[1].snap)) =>
         (cur[1].built /\ outFile.exists /\ outFile.text = cur[1].ret)
    /\ (prev.some /\ prev.cache = "older" /\ prev.ret # NullText
          /\ cur[1].clean /\ ~dirty) => ~cur[1].built

\* C4: a missing extension directory, a missing entry file and a bundler
\* error each give null; with a stale cache and a failing bundler the call
\* returns null, not the stale text, and the next call builds again.
C4_FailuresGiveNull ==
  pc[1] = "done" =>
    /\ cur[1].entry = NoEntry => (cur[1].ret = NullText /\ ~cur[1].built)
    /\ (cur[1].built /\ ~BundlerOk(cur[1].snap)) => cur[1].ret = NullText
    /\ (prev.some /\ prev.built /\ prev.ret = NullText /\ cur[1].clean /\ ~dirty)
         => cur[1].built

\* the cache was stale, the bundler failed, null came back, and the call
\* before it had failed the same way
C4_Witness ==
  /\ pc[1] = "done"
  /\ cur[1].cache \in {"older", "equal"}
  /\ outFile.exists
  /\ cur[1].built /\ cur[1].ret = NullText
  /\ cur[1].clean /\ ~dirty
  /\ prev.some /\ prev.built /\ prev.ret = NullText

\* C17: a call reaches `npm install` only when node_modules is absent and
\* the manifest declares a dependency; once node_modules exists no further
\* call installs.
C17_InstallOnlyWhenNeeded ==
  [][\A p \in Callers :
       /\ (pc[p] # "installing" /\ pc'[p] = "installing") =>
            (extDir /\ ~nodeModules /\ pkg = "deps")
       /\ (CompileStart(p) /\ (nodeModules \/ pkg # "deps")) =>
            (pc'[p] # "installing" /\ ~cur'[p].installed)]_vars

\* node_modules exists, the manifest declares dependencies, and a call that
\* followed another one ended without an install
C17_Witness ==
  /\ extDir
  /\ nodeModules
  /\ pkg = "deps"
  /\ prev.some
  /\ pc[1] = "done"
  /\ ~cur[1].installed

\* C22: compile resolves the entry file, the first existing candidate in
\* the stated order, before it turns to the dependencies: a call that finds
\* no candidate returns null and has invoked no installation.
C22_EntryResolvedBeforeInstall ==
  \A p \in Callers :
    /\ (pc[p] = "installing" /\ ~dirty) => resolveEntryFile(srcFiles) # NoEntry
    /\ (pc[p] = "done" /\ cur[p].entry = NoEntry) =>
         (cur[p].ret = NullText /\ ~cur[p].installed)
    /\ (pc[p] = "done" /\ cur[p].entry # NoEntry /\ ~dirty) =>
         \E i \in 1..Len(Candidates) :
           /\ cur[p].entry = Candidates[i]
           /\ \A j \in 1..(i - 1) : ~srcFiles[Candidates[j]].exists

(***************************************************************************)
(* SpecRace: two callers compile the same command of an installed          *)
(* extension, one call each, while its entry file is edited; the cache     *)
(* file is missing at first, or left by an earlier build.                  *)
(***************************************************************************)
InitRace ==
  /\ IdleList
  /\ IdleHost
  /\ IdleLoad
  /\ IdleView
  /\ now = 0
  /\ extDir = TRUE
  /\ pkg \in {"nodeps", "deps"}
  /\ nodeModules = FALSE
  /\ \E c \in Contents :
       srcFiles = [f \in CandidateSet |->
                     IF f \in OneEntry THEN [exists |-> TRUE, mtime |-> 0, content |-> c]
                     ELSE AbsentSrc]
  /\ \/ buildDir = FALSE /\ outFile = AbsentOut
     \/ \E c \in {k \in Contents : BundlerOk(k)} :
          /\ buildDir = TRUE
          /\ outFile = [exists |-> TRUE, mtime |-> 0, text |-> BundleText(c)]
  /\ pc = [p \in Callers |-> "idle"]
  /\ cur = [p \in Callers |-> IdleCall]
  /\ prev = NoPrev
  /\ dirty = FALSE

NextRace ==
  \/ Tick
  \/ WriteSrc(OneEntry)
  \/ \E p \in Callers : pc[p] = "idle" /\ CompileStart(p)
  \/ \E p \in Callers : InstallFinish(p)
  \/ \E p \in Callers : BuildFinish(p)

SpecRace == InitRace /\ [][NextRace]_vars

TwoEntries == {"cmd.tsx", "index.tsx"}

InitSources ==
  /\ IdleList
  /\ IdleHost
  /\ IdleLoad
  /\ IdleView
  /\ now = 0
  /\ extDir = TRUE
  /\ pkg = "nodeps"
  /\ nodeModules = FALSE
  /\ \E c \in Contents, d \in Contents :
       srcFiles = [f \in CandidateSet |->
                     IF f = "cmd.tsx" THEN [exists |-> TRUE, mtime |-> 0, content |-> c]
                     ELSE IF f = "index.tsx" THEN [exists |-> TRUE, mtime |-> 0, content |-> d]
                     ELSE AbsentSrc]
  /\ buildDir = FALSE
  /\ outFile = AbsentOut
  /\ pc = [p \in Callers |-> "idle"]
  /\ cur = [p \in Callers |-> IdleCall]
  /\ prev = NoPrev
  /\ dirty = FALSE

NextSources ==
  \/ Tick
  \/ WriteSrc(TwoEntries)
  \/ DeleteSrc(TwoEntries)
  \/ CompileStart(1)
  \/ BuildFinish(1)

SpecSources == InitSources /\ [][NextSources]_vars

\* C26: a call that answers from the cache returns what a bundler run over
\* the sources as they stand would produce: the bundle of the file the
\* entry resolves to now, with the content it has now.
C26_CacheHitEqualsFreshBuild ==
  [][(CompileStart(1) /\ pc'[1] = "done" /\ ~cur'[1].built /\ cur'[1].ret # NullText) =>
       LET entry == resolveEntryFile(srcFiles)
       IN  /\ entry # NoEntry
           /\ BundlerOk(srcFiles[entry].content)
           /\ cur'[1].ret = BundleText(srcFiles[entry].content)]_vars

(***************************************************************************)
(* Discovery: discoverInstalledExtensionCommands (extension-runner.ts).    *)
(* Strings are sequences of characters; JSON values carry their type.      *)
(***************************************************************************)
Undef == [t |-> "undef", s |-> <<>>]
NullV == [t |-> "null", s |-> <<>>]
Num == [t |-> "num", s |-> <<>>]          \* a non-zero number
Str(x) == [t |-> "str", s |-> x]

\* JavaScript truthiness, and a || b
Truthy(v) == v.t = "num" \/ (v.t = "str" /\ v.s # <<>>)
Or(a, b) == IF Truthy(a) THEN a ELSE b

LowerChar(ch) ==
  IF ch = "A" THEN "a" ELSE IF ch = "B" THEN "b" ELSE IF ch = "T" THEN "t" ELSE ch
toLowerCase(x) == [i \in 1..Len(x) |-> LowerChar(x[i])]

EndsWith(x, suf) ==
  /\ Len(x) >= Len(suf)
  /\ SubSeq(x, Len(x) - Len(suf) + 1, Len(x)) = suf

\* the mime type getExtensionIconDataUrl infers from path.extname
MimeOf(file) ==
  IF EndsWith(file, <<".", "s", "v", "g">>) THEN "image/svg+xml"
  ELSE IF EndsWith(file, <<".", "j", "p", "g">>) \/ EndsWith(file, <<".", "j", "p", "e", "g">>)
  THEN "image/jpeg"
  ELSE "image/png"

NoIcon == [mime |-> "", from |-> ""]

\* getExtensionIconDataUrl(extPath, iconFile): the first candidate that
\* exists, can be read and holds at least 50 bytes; path.join throws on a
\* name that is not a string
getExtensionIconDataUrl(d, iconFile) ==
  IF iconFile.t # "str" THEN [threw |-> TRUE, url |-> NoIcon]
  ELSE IF d.assets = "ok"
  THEN [threw |-> FALSE, url |-> [mime |-> MimeOf(iconFile.s), from |-> "assets"]]
  ELSE IF d.top = "ok"
  THEN [threw |-> FALSE, url |-> [mime |-> MimeOf(iconFile.s), from |-> "top"]]
  ELSE [threw |-> FALSE, url |-> NoIcon]

\* the keywords array before filter(Boolean).map(toLowerCase)
KeywordSources(d, cmd) ==
  <<Str(d.name), Or(d.title, Str(<<>>)), cmd.name,
    Or(cmd.title, Str(<<>>)), Or(cmd.description, Str(<<>>))>>

\* the object pushed for one command (lines 107-124)
Descriptor(d, cmd, url) ==
  [id |-> <<"e", "x", "t", "-">> \o d.name \o <<"-">> \o cmd.name.s,
   title |-> Or(cmd.title, cmd.name).s,
   extName |-> d.name,
   cmdName |-> cmd.name.s,
   description |-> Or(cmd.description, Str(<<>>)).s,
   mode |-> Or(cmd.mode, Str(<<"v", "i", "e", "w">>)),
   keywords |-> LET kept == SelectSeq(KeywordSources(d, cmd), Truthy)
                IN  [i \in 1..Len(kept) |-> toLowerCase(kept[i].s)],
   iconDataUrl |-> url]

\* the loop over pkg.commands (lines 105-125) from entry i on; acc is what
\* has been pushed.  Reading .name of null throws, and so does toLowerCase
\* on a keyword source that is truthy and not a string.
RECURSIVE CommandLoop(_, _, _, _, _)
CommandLoop(d, cmds, url, i, acc) ==
  IF i > Len(cmds) THEN [threw |-> FALSE, items |-> acc]
  ELSE LET cmd == cmds[i]
       IN  IF cmd.t = "null" THEN [threw |-> TRUE, items |-> acc]
           ELSE IF ~Truthy(cmd.name) THEN CommandLoop(d, cmds, url, i + 1, acc)
           ELSE IF \E k \in 1..5 : LET v == KeywordSources(d, cmd)[k]
                                   IN  Truthy(v) /\ v.t # "str"
           THEN [threw |-> TRUE, items |-> acc]
           ELSE CommandLoop(d, cmds, url, i + 1, Append(acc, Descriptor(d, cmd, url)))

\* the body of the per-extension try block (lines 99-125)
ExtensionBody(d) ==
  IF d.pkgFile = "syntax" \/ d.pkgFile = "null"
  THEN [threw |-> TRUE, items |-> <<>>]
  ELSE LET icon == getExtensionIconDataUrl(d, Or(d.icon, Str(<<"i", "c", "o", "n", ".", "p", "n", "g">>)))
       IN  IF icon.threw THEN [threw |-> TRUE, items |-> <<>>]
           ELSE IF d.commands.t = "undef" THEN [threw |-> FALSE, items |-> <<>>]
           ELSE IF d.commands.t # "array" THEN [threw |-> TRUE, items |-> <<>>]
           ELSE CommandLoop(d, d.commands.items, icon.url, 1, <<>>)

\* `try { ... } catch {}` around one extension: what was pushed stays
CatchRethrow(r) == r
CatchPerExtension(r) == [r EXCEPT !.threw = FALSE]

\* one turn of the loop over readdirSync(extDir) (lines 87-127)
ExtensionTurn(d) ==
  IF d.kind # "dir" \/ d.pkgFile = "missing"
  THEN [threw |-> FALSE, items |-> <<>>]
  ELSE CatchPerExtension(ExtensionBody(d))

RECURSIVE DirLoop(_, _, _)
DirLoop(dirs, i, acc) ==
  IF i > Len(dirs) THEN [done |-> TRUE, threw |-> FALSE, items |-> acc]
  ELSE LET r == ExtensionTurn(dirs[i])
       IN  IF r.threw THEN [done |-> TRUE, threw |-> TRUE, items |-> <<>>]
           ELSE DirLoop(dirs, i + 1, acc \o r.items)

discoverInstalledExtensionCommands(r) ==
  IF ~r.exists THEN [done |-> TRUE, threw |-> FALSE, items |-> <<>>]
  ELSE DirLoop(r.dirs, 1, <<>>)

Discover ==
  /\ listed' = discoverInstalledExtensionCommands(root)
  /\ UNCHANGED root
  /\ UNCHANGED notList

(***************************************************************************)
(* SpecList: the extensions root is drawn from manifests of every shape.   *)
(***************************************************************************)
DirNames == <<(<<"a">>), (<<"a", "-", "b">>)>>

Entry(t, nm, ti, de, mo) ==
  [t |-> t, name |-> nm, title |-> ti, description |-> de, mode |-> mo]
GoodEntry == Entry("obj", Str(<<"c">>), Undef, Undef, Undef)
FullEntry == Entry("obj", Str(<<"b", "-", "c">>), Str(<<"B">>), Str(<<"d">>),
                   Str(<<"n", "o", "-", "v", "i", "e", "w">>))
NullEntry == Entry("null", Undef, Undef, Undef, Undef)
PrimEntry == Entry("prim", Undef, Undef, Undef, Undef)
EmptyNameEntry == Entry("obj", Str(<<>>), Str(<<"T">>), Undef, Undef)
NumTitleEntry == Entry("obj", Str(<<"d">>), Num, Undef, Undef)
Entries == {GoodEntry, FullEntry, NullEntry, PrimEntry, EmptyNameEntry, NumTitleEntry}

CommandLists == UNION {[1..n -> Entries] : n \in 0..MaxCmds}

Dir(name, kind, pkgFile, icon, assets, top, title, commands) ==
  [name |-> name, kind |-> kind, pkgFile |-> pkgFile, icon |-> icon,
   assets |-> assets, top |-> top, title |-> title, commands |-> commands]
ArrayOf(items) == [t |-> "array", items |-> items]
NoCommands == [t |-> "undef", items |-> <<>>]

\* extensions whose manifest parses to an object with a commands array
ManifestDirs(name) ==
  {Dir(name, "dir", "object", ic[1], ic[2], "absent", title, ArrayOf(cmds)) :
     ic \in {<<Undef, "absent">>, <<Str(<<"i", ".", "s", "v", "g">>), "ok">>},
     title \in {Undef, Str(<<"T">>)},
     cmds \in CommandLists}

\* the neighbours: every way an entry of the root fails, and a sound one
OtherDirs(name) ==
  LET good == ArrayOf(<<GoodEntry>>)
  IN  {Dir(name, "file", "missing", Undef, "absent", "absent", Undef, NoCommands),
       Dir(name, "gone", "missing", Undef, "absent", "absent", Undef, NoCommands),
       Dir(name, "dir", "missing", Undef, "absent", "absent", Undef, NoCommands),
       Dir(name, "dir", "syntax", Undef, "absent", "absent", Undef, NoCommands),
       Dir(name, "dir", "null", Undef, "absent", "absent", Undef, NoCommands),
       Dir(name, "dir", "object", Num, "absent", "absent", Undef, good),
       Dir(name, "dir", "object", Undef, "unreadable", "ok", Undef, good),
       Dir(name, "dir", "object", Undef, "small", "unreadable", Undef, good),
       Dir(name, "dir", "object", Undef, "absent", "absent", Num, good),
       Dir(name, "dir", "object", Undef, "absent", "absent", Undef,
           [t |-> "num", items |-> <<>>]),
       Dir(name, "dir", "object", Undef, "absent", "absent", Undef, NoCommands),
       Dir(name, "dir", "object", Undef, "absent", "absent", Undef, good)}

InitList ==
  /\ IdleFs
  /\ IdleHost
  /\ IdleLoad
  /\ IdleView
  /\ \/ root = [exists |-> FALSE, dirs |-> <<>>]
     \/ \E x \in ManifestDirs(DirNames[1]), y \in OtherDirs(DirNames[2]) :
          root = [exists |-> TRUE, dirs |-> <<x, y>>]
     \/ \E x \in OtherDirs(DirNames[1]), y \in ManifestDirs(DirNames[2]) :
          root = [exists |-> TRUE, dirs |-> <<x, y>>]
  /\ listed = [done |-> FALSE, threw |-> FALSE, items |-> <<>>]

NextList == Discover

SpecList == InitList /\ [][NextList]_vars

(***************************************************************************)
(* Claims about the Metadata Catalog (SpecList).                           *)
(***************************************************************************)
DescriptorsOf(items, name) == SelectSeq(items, LAMBDA x : x.extName = name)
NamesOf(items) == [i \in 1..Len(items) |-> items[i].cmdName]

\* a command entry that is an object with a non-empty string name and whose
\* other fields are strings or absent
WellFormedEntry(e) ==
  /\ e.t = "obj"
  /\ e.name.t = "str" /\ e.name.s # <<>>
  /\ \A v \in {e.title, e.description, e.mode} : v.t \in {"undef", "str"}

\* a manifest that is sound above its command entries
SoundManifest(d) ==
  /\ d.kind = "dir" /\ d.pkgFile = "object"
  /\ d.icon.t \in {"undef", "str"}
  /\ d.title.t \in {"undef", "str"}
  /\ d.commands.t = "array"

WellFormedNames(d) ==
  LET kept == SelectSeq(d.commands.items, WellFormedEntry)
  IN  [i \in 1..Len(kept) |-> kept[i].name.s]

\* C5: list() never throws and returns one descriptor for every well-formed
\* command entry of a manifest, leaving out only the entries that are
\* malformed or have an empty name; a malformed entry does not make the
\* valid entries after it disappear.
C5_OnlyOffendingEntriesExcluded ==
  listed.done =>
    /\ ~listed.threw
    /\ \A i \in 1..Len(root.dirs) :
         SoundManifest(root.dirs[i]) =>
           NamesOf(DescriptorsOf(listed.items, root.dirs[i].name))
             = WellFormedNames(root.dirs[i])

\* C6: the descriptors list() emits for one extension are those it emits
\* when that extension is alone in the root, whatever the other entry of the
\* root is (malformed or missing manifest, unreadable icon, not a
\* directory); a missing root gives the empty list.
C6_DiscoveryIsolatedPerExtension ==
  listed.done =>
    /\ ~listed.threw
    /\ ~root.exists => listed.items = <<>>
    /\ \A i \in 1..Len(root.dirs) :
         DescriptorsOf(listed.items, root.dirs[i].name)
           = discoverInstalledExtensionCommands(
               [exists |-> TRUE, dirs |-> <<root.dirs[i]>>]).items

\* an extension with a descriptor listed after a neighbour whose manifest
\* does not parse
C6_Witness ==
  /\ listed.done
  /\ root.exists
  /\ root.dirs[1].pkgFile = "syntax"
  /\ Len(root.dirs[2].commands.items) = 2
  /\ Len(DescriptorsOf(listed.items, root.dirs[2].name)) = 2

(***************************************************************************)
(* Bundle host: getExtensionBundle (extension-runner.ts 292-311).  The     *)
(* text is what buildExtensionCommand handed back: null, a bundle, or the  *)
(* empty text of an output file that holds no code.                        *)
(***************************************************************************)
\* fs.readFileSync(outFile, 'utf-8') of an output without code (lines 212, 280)
EmptyText == [kind |-> "empty", from |-> 0]

\* line 297: `!code` is false for a text that is neither null nor empty
HasCode(text) == text.kind = "cjs"

\* the cmdName argument, and the default mode (line 301)
CmdName == <<"c">>
ViewMode == Str(<<"v", "i", "e", "w">>)

\* (pkg.commands || []).find((c) => c.name === cmdName), line 305: reading
\* .name of null throws; a primitive has no name
RECURSIVE FindCommand(_, _, _)
FindCommand(items, i, name) ==
  IF i > Len(items) THEN [threw |-> FALSE, found |-> FALSE, cmd |-> Entry("null", Undef, Undef, Undef, Undef)]
  ELSE IF items[i].t = "null" THEN [threw |-> TRUE, found |-> FALSE, cmd |-> items[i]]
  ELSE IF items[i].t = "obj" /\ items[i].name = Str(name)
  THEN [threw |-> FALSE, found |-> TRUE, cmd |-> items[i]]
  ELSE FindCommand(items, i + 1, name)

\* lines 300-308: title and mode start as cmdName and 'view'; whatever
\* throws inside the try leaves them so
ReadBack(mf, name) ==
  LET defaults == [title |-> Str(name), mode |-> ViewMode]
  IN  IF mf.pkgFile # "object" THEN defaults
      ELSE IF mf.commands.t = "undef" THEN defaults
      ELSE IF mf.commands.t # "array" THEN defaults
      ELSE LET f == FindCommand(mf.commands.items, 1, name)
           IN  IF f.threw \/ ~f.found THEN defaults
               ELSE [title |-> Or(f.cmd.title, Str(name)),
                     mode |-> Or(f.cmd.mode, ViewMode)]

\* getExtensionBundle (lines 292-311) after the awaited compile
getExtensionBundle(built, mf, name) ==
  IF ~HasCode(built)
  THEN [done |-> TRUE, some |-> FALSE, code |-> NullText, title |-> Undef, mode |-> Undef]
  ELSE [done |-> TRUE, some |-> TRUE, code |-> built,
        title |-> ReadBack(mf, name).title, mode |-> ReadBack(mf, name).mode]

GetBundle ==
  /\ ~bundleRet.done
  /\ bundleRet' = getExtensionBundle(bundleCall.built, bundleCall, CmdName)
  /\ UNCHANGED bundleCall
  /\ UNCHANGED notHost

(***************************************************************************)
(* SpecHost: one call, for every text compile can hand back and manifests  *)
(* of every shape.                                                         *)
(***************************************************************************)
CompileResults == {NullText, EmptyText} \cup {BundleText(c) : c \in {k \in Contents : BundlerOk(k)}}

TitledEntry == Entry("obj", Str(CmdName), Str(<<"T">>), Undef,
                     Str(<<"n", "o", "-", "v", "i", "e", "w">>))
HostEntries == Entries \cup {TitledEntry}
HostCommandLists == UNION {[1..n -> HostEntries] : n \in 0..MaxCmds}

HostManifests ==
  {[pkgFile |-> k, commands |-> NoCommands] : k \in {"missing", "syntax", "null", "object"}}
  \cup {[pkgFile |-> "object", commands |-> [t |-> "num", items |-> <<>>]]}
  \cup {[pkgFile |-> "object", commands |-> ArrayOf(l)] : l \in HostCommandLists}

InitHost ==
  /\ IdleFs
  /\ IdleList
  /\ IdleLoad
  /\ IdleView
  /\ \E b \in CompileResults, m \in HostManifests :
       bundleCall = [built |-> b, pkgFile |-> m.pkgFile, commands |-> m.commands]
  /\ bundleRet = NoBundle

NextHost == GetBundle

SpecHost == InitHost /\ [][NextHost]_vars

(***************************************************************************)
(* Claims about the bundle host (SpecHost).                                *)
(***************************************************************************)
\* the entries of the manifest that declare the command, when it parses
Declaring ==
  IF bundleCall.pkgFile = "object" /\ bundleCall.commands.t = "array"
  THEN {i \in 1..Len(bundleCall.commands.items) :
          /\ bundleCall.commands.items[i].t = "obj"
          /\ bundleCall.commands.items[i].name = Str(CmdName)}
  ELSE {}

\* what the manifest declares for the command under `field`, else `dflt`
DeclaredOr(field, dflt) ==
  IF Declaring = {} THEN dflt
  ELSE LET c == bundleCall.commands.items[Min(Declaring)]
       IN  IF Truthy(c[field]) THEN c[field] ELSE dflt

\* C16: getExtensionBundle returns null exactly when compile gave no bundle
\* (null, or a text that holds nothing); otherwise it returns the compiled
\* text with the title and the mode the manifest declares for the command,
\* the command name and `view` standing in when the manifest does not parse
\* or does not declare them.
C16_BundleCarriesDeclaredTitleAndMode ==
  bundleRet.done =>
    /\ ~bundleRet.some <=> bundleCall.built \in {NullText, EmptyText}
    /\ bundleRet.some =>
         /\ bundleRet.code = bundleCall.built
         /\ bundleRet.title = DeclaredOr("title", Str(CmdName))
         /\ bundleRet.mode = DeclaredOr("mode", ViewMode)

(***************************************************************************)
(* Sandbox loader: ensureGlobals, fakeRequire, loadExtensionExport         *)
(* (smart-calculator.ts 525-644).  A module name is its text after an      *)
(* optional "node:" prefix, and whether it has the prefix.                 *)
(***************************************************************************)
Plain(id) == [node |-> FALSE, id |-> id]
Prefixed(id) == [node |-> TRUE, id |-> id]

\* the keys of the nodeBuiltinStubs literal (lines 525-559)
StubKeys ==
  {"fs", "fs/promises", "path", "os", "crypto", "events", "child_process",
   "timers", "timers/promises", "buffer", "util", "stream", "stream/promises",
   "url", "querystring", "http", "https", "assert", "net", "tls", "dns",
   "dgram", "cluster", "tty", "v8", "vm", "worker_threads", "zlib", "module",
   "readline", "perf_hooks", "string_decoder", "process"}

\* the table after the loop that adds every key again under "node:" (562-564)
nodeBuiltinStubs == {Plain(k) : k \in StubKeys} \cup {Prefixed(k) : k \in StubKeys}

\* what every object inherits from Object.prototype
ObjectPrototypeKeys ==
  {"constructor", "toString", "toLocaleString", "valueOf", "hasOwnProperty",
   "isPrototypeOf", "propertyIsEnumerable", "__proto__", "__defineGetter__",
   "__defineSetter__", "__lookupGetter__", "__lookupSetter__"}

\* `name in nodeBuiltinStubs`: own keys and the prototype chain
InStubs(name) ==
  name \in nodeBuiltinStubs \/ (~name.node /\ name.id \in ObjectPrototypeKeys)

Resolved(kind, name, warned) ==
  [threw |-> FALSE, kind |-> kind, of |-> name, warned |-> warned]

\* the end of the default branch (lines 610-614): warn, return {}
UnknownModuleThrows(name) ==
  [threw |-> TRUE, kind |-> "none", of |-> name, warned |-> FALSE]
UnknownModule(name) == Resolved("empty", name, TRUE)

\* fakeRequire (lines 595-616)
fakeRequire(name) ==
  IF name = Plain("react") THEN Resolved("React", name, FALSE)
  ELSE IF name = Plain("react/jsx-runtime") THEN Resolved("jsx-runtime", name, FALSE)
  ELSE IF name = Plain("@raycast/api") THEN Resolved("RaycastAPI", name, FALSE)
  ELSE IF name = Plain("@raycast/utils") THEN Resolved("RaycastUtils", name, FALSE)
  ELSE IF InStubs(name)
  THEN IF name \in nodeBuiltinStubs THEN Resolved("stub", name, FALSE)
       ELSE Resolved("inherited", name, FALSE)
  ELSE UnknownModule(name)

\* the globals ensureGlobals looks after; globalThis is the global object
\* itself, which the engine provides
Injected == {"process", "Buffer", "global"}
GlobalNames == Injected \cup {"globalThis"}

\* ensureGlobals (lines 568-578): each of process, Buffer and global is set
\* only when it is missing (or falsy); process and Buffer to the module's
\* stub objects, global to globalThis
ensureGlobalsAlways(g) ==
  [k \in DOMAIN g |-> IF k \in Injected THEN "stub" ELSE g[k]]
ensureGlobals(g) ==
  [k \in DOMAIN g |-> IF k \in Injected /\ g[k] = "absent" THEN "stub" ELSE g[k]]

\* the bundle's require calls, in order, up to the first that throws
RECURSIVE RunRequires(_, _, _)
RunRequires(names, i, acc) ==
  IF i > Len(names) THEN [threw |-> FALSE, required |-> acc]
  ELSE LET r == fakeRequire(names[i])
       IN  IF r.threw THEN [threw |-> TRUE, required |-> Append(acc, r)]
           ELSE RunRequires(names, i + 1, Append(acc, r))

\* lines 631-639: exports.default || exports, returned when it is callable;
\* a default that is "absent" is undefined or any other falsy value
ExportOfDefaultOnly(b) ==
  IF b.default = "function" THEN "default" ELSE "null"
ExportOf(b) ==
  IF b.default # "absent"
  THEN IF b.default = "function" THEN "default" ELSE "null"
  ELSE IF b.exports = "function" THEN "exports" ELSE "null"

\* loadExtensionExport (lines 584-644); `seen` is filled in by Load with the
\* globals that are present when the bundle text runs: a syntax error
\* in `new Function`, a throwing require or a runtime error lands in the
\* catch and gives null
loadExtensionExport(b) ==
  IF b.fail = "syntax" THEN [done |-> TRUE, ret |-> "null", required |-> <<>>, seen |-> {}]
  ELSE LET run == RunRequires(b.requires, 1, <<>>)
       IN  IF run.threw \/ b.fail = "runtime"
           THEN [done |-> TRUE, ret |-> "null", required |-> run.required, seen |-> {}]
           ELSE [done |-> TRUE, ret |-> ExportOf(b), required |-> run.required, seen |-> {}]

\* ExtensionView evaluates useMemo(() => loadExtensionExport(code), [code])
Load ==
  /\ globals' = ensureGlobals(globals)
  /\ lastLoad' = [loadExtensionExport(code) EXCEPT
                    !.seen = {k \in GlobalNames : ensureGlobals(globals)[k] # "absent"}]
  /\ UNCHANGED code
  /\ UNCHANGED notLoad

\* the host opens another command: new bundle text
NewCode(B) ==
  /\ lastLoad.done
  /\ \E b \in B : code' = b
  /\ lastLoad' = [done |-> FALSE, ret |-> "null", required |-> <<>>, seen |-> {}]
  /\ UNCHANGED globals
  /\ UNCHANGED notLoad

(***************************************************************************)
(* SpecLoad                                                                *)
(***************************************************************************)
ModuleNames ==
  {Plain("react"), Plain("react/jsx-runtime"), Plain("@raycast/api"),
   Plain("@raycast/utils"), Plain("react-dom"), Plain("fs"), Prefixed("fs"),
   Plain("http2"),
   Plain("left-pad"), Plain("toString"), Plain("")}

RequireLists == UNION {[1..n -> ModuleNames] : n \in 0..MaxRequires}

Bundles ==
  [fail : {"none", "syntax", "runtime"}, requires : RequireLists,
   default : {"absent", "function", "object"}, exports : {"object", "function"}]

\* the bundles a later command of the same process may be
LaterBundles ==
  {[fail |-> "none", requires |-> <<Plain("react")>>, default |-> "function",
    exports |-> "object"],
   [fail |-> "runtime", requires |-> <<>>, default |-> "absent", exports |-> "object"]}

InitLoad ==
  /\ IdleFs
  /\ IdleHost
  /\ IdleList
  /\ IdleView
  /\ globals \in {g \in [GlobalNames -> {"absent", "host"}] : g["globalThis"] = "host"}
  /\ code \in Bundles
  /\ lastLoad = [done |-> FALSE, ret |-> "null", required |-> <<>>, seen |-> {}]

NextLoad ==
  \/ Load
  \/ NewCode(LaterBundles)

SpecLoad == InitLoad /\ [][NextLoad]_vars

(***************************************************************************)
(* Claims about the Sandbox Loader (SpecLoad).                             *)
(***************************************************************************)
\* C7: fakeRequire is total: for every module name it returns a value and
\* never throws.
C7_RequireIsTotal ==
  lastLoad.done =>
    \A i \in 1..Len(lastLoad.required) :
      /\ ~lastLoad.required[i].threw
      /\ lastLoad.required[i].kind \in
           {"React", "jsx-runtime", "RaycastAPI", "RaycastUtils", "stub",
            "inherited", "empty"}
      /\ lastLoad.required[i].of = code.requires[i]

\* a bundle that required a name no table knows and then the empty name,
\* got a value for both and loaded
C7_Witness ==
  /\ lastLoad.done
  /\ code.requires = <<Plain("left-pad"), Plain("")>>
  /\ Len(lastLoad.required) = 2
  /\ lastLoad.required[1].kind = "empty"
  /\ lastLoad.required[2].kind = "empty"
  /\ lastLoad.ret = "default"

\* the bundle ran to its end: no syntax error, no runtime error
RanToEnd == code.fail = "none" /\ \A i \in 1..Len(lastLoad.required) : ~lastLoad.required[i].threw

\* C14 as stated: load returns exports.default when that is callable,
\* otherwise the exports object when that is callable, and null in every
\* other case; an error while the bundle executes gives null.
C14_DefaultElseExports ==
  lastLoad.done =>
    lastLoad.ret =
      IF ~RanToEnd THEN "null"
      ELSE IF code.default = "function" THEN "default"
      ELSE IF code.exports = "function" THEN "exports"
      ELSE "null"

\* C14 amended: load returns exports.default when that is callable; the
\* exports object when exports.default is missing or falsy and the exports
\* object is callable; null in every other case, also when exports.default
\* is a truthy value that is not callable and the exports object is
\* callable; an error while the bundle executes gives null.
C14_DefaultOrElseExports ==
  lastLoad.done =>
    lastLoad.ret =
      IF ~RanToEnd THEN "null"
      ELSE IF code.default = "function" THEN "default"
      ELSE IF code.default = "absent" /\ code.exports = "function" THEN "exports"
      ELSE "null"

\* a callable exports object that carries a non-callable default was
\* loaded, and the load gave null
C14_Witness ==
  /\ lastLoad.done
  /\ RanToEnd
  /\ code.default = "object"
  /\ code.exports = "function"
  /\ lastLoad.ret = "null"

\* C15: across any sequence of loads, process, Buffer, global and
\* globalThis are all present when a bundle text executes; a global that is
\* present is never replaced by a load; none is ever removed.
C15_GlobalsInjectedOnce ==
  /\ [](lastLoad.done => lastLoad.seen = GlobalNames)
  /\ [][\A k \in GlobalNames : globals[k] # "absent" => globals'[k] = globals[k]]_vars

\* a load ran where the host provided process and the loader the rest
C15_Witness ==
  /\ lastLoad.done
  /\ code.fail = "none"
  /\ lastLoad.seen = GlobalNames
  /\ globals["process"] = "host"
  /\ globals["Buffer"] = "stub"
  /\ globals["global"] = "stub"
  /\ globals["globalThis"] = "host"

\* the names fakeRequire has a case for
FixedModules ==
  {Plain("react"), Plain("react/jsx-runtime"), Plain("@raycast/api"), Plain("@raycast/utils")}

\* C23: a module name that is neither one of the fixed modules nor a key of
\* the builtin table (bare or node:-prefixed) resolves to an empty object
\* with an unknown-module warning, also when it names a property that every
\* object inherits, such as `toString`.
C23_UnknownGivesEmptyObject ==
  lastLoad.done =>
    \A i \in 1..Len(lastLoad.required) :
      (lastLoad.required[i].of \notin FixedModules \cup nodeBuiltinStubs) =>
        /\ ~lastLoad.required[i].threw
        /\ lastLoad.required[i].kind = "empty"
        /\ lastLoad.required[i].warned

\* what buildExtensionCommand hands to esbuild as `external`
\* (extension-runner.ts lines 223-256)
ExternalBuiltins ==
  {"assert", "buffer", "child_process", "cluster", "crypto", "dgram", "dns",
   "events", "fs", "fs/promises", "http", "http2", "https", "module", "net",
   "os", "path", "perf_hooks", "process", "querystring", "readline", "stream",
   "stream/promises", "string_decoder", "timers", "timers/promises", "tls",
   "tty", "url", "util", "v8", "vm", "worker_threads", "zlib"}
ExternalPrefixed ==
  {"assert", "buffer", "child_process", "crypto", "events", "fs", "fs/promises",
   "http", "https", "module", "net", "os", "path", "process", "querystring",
   "stream", "timers", "timers/promises", "url", "util", "vm", "worker_threads",
   "zlib"}
Externals ==
  {Plain("react"), Plain("react-dom"), Plain("react/jsx-runtime"),
   Plain("@raycast/api"), Plain("@raycast/utils")}
  \cup {Plain(k) : k \in ExternalBuiltins}
  \cup {Prefixed(k) : k \in ExternalPrefixed}

\* C24: every module name the compiler leaves external is resolved by the
\* loader to the in-process singleton, the shim or a builtin stub, never to
\* the empty object of an unknown module.
C24_ExternalsAreResolved ==
  lastLoad.done =>
    \A i \in 1..Len(lastLoad.required) :
      lastLoad.required[i].of \in Externals =>
        lastLoad.required[i].kind \in
          {"React", "jsx-runtime", "RaycastAPI", "RaycastUtils", "stub"}

(***************************************************************************)
(* Command lifecycle: ExtensionView, SafeViewRenderer, NoViewRunner,       *)
(* ExtensionErrorBoundary (smart-calculator.ts 375-405, 650-866).          *)
(***************************************************************************)
\* line 762
IsNoViewNoMenuBar == mode = "no-view" \/ detectedNoView
IsNoView == mode = "no-view" \/ mode = "menu-bar" \/ detectedNoView

\* `if (error)`: null and the empty message are falsy
ErrorShown == error # NoError /\ error # ""

\* which return of ExtensionView's render is taken (lines 798-865)
Branch ==
  IF ErrorShown THEN "error-panel"
  ELSE IF ~loaded THEN "load-failed"
  ELSE IF IsNoView THEN "no-view"
  ELSE "view"

\* what a call of the entry function does: returns a React element, null,
\* some other non-thenable value, a thenable, or throws
Outcomes == {"element", "null", "other", "thenable", "throw"}

\* the messages of what an entry throws or rejects with; "" is no message
ErrVals == {"boom", ""}

\* how an awaited fn() ends: it resolves, or it rejects (or fn throws) with
\* a message
Fates == {[fate |-> "ok", msg |-> ""]} \cup {[fate |-> "reject", msg |-> m] : m \in ErrVals}

\* the useMemo of SafeViewRenderer (lines 717-728): the memoised element
ProbeElementCatchNull(o) ==
  IF o = "thenable" \/ o = "throw" THEN "null" ELSE o
ProbeElement(o) ==
  IF o = "thenable" THEN "null"
  ELSE IF o = "throw" THEN "undefined"
  ELSE o

\* ExtensionErrorBoundary.getDerivedStateFromError (lines 381-383): the
\* boundary keeps the error, here by its message
getDerivedStateFromErrorDrops(m) == NoError
getDerivedStateFromError(m) == m

\* componentDidCatch and onError (lines 385-387, 856): setError(e.message)
componentDidCatch(m) == m

\* line 671: e?.message || 'Command failed'
Captured(m) == IF m = "" THEN "Command failed" ELSE m

\* the extension's own components are on screen
ContentRendered ==
  /\ mounted
  /\ Branch = "view"
  /\ boundary = NoError
  /\ \/ navStack # <<>>
     \/ view.mounted /\ (view.element = "element" \/ view.inst = "ok")

\* the cleanup of the effect (line 676) sets the flag of every earlier run
CancelNone(rs) == rs
\* code of the extension holds push and pop: its components are on screen,
\* or they were until one of them failed (a callback of theirs may still run)
HoldsNavigation == ContentRendered \/ (mounted /\ boundary # NoError)

CancelAll(rs) == [i \in 1..Len(rs) |-> [rs[i] EXCEPT !.cancelled = TRUE]]

\* SafeViewRenderer mounts (lines 857-861, 713-746): the probe call, and
\* for an element that is neither null nor a React element the rendering of
\* <Component />, whose failure the error boundary catches (lines 381-387,
\* 856)
Probe ==
  /\ mounted
  /\ Branch = "view"
  /\ boundary = NoError
  /\ navStack = <<>>
  /\ ~view.mounted
  /\ \E o \in Outcomes :
       LET el == ProbeElement(o)
       IN  IF el = "null" \/ el = "element"
           THEN /\ entryCalls < MaxEntryCalls
                /\ entryCalls' = entryCalls + 1
                /\ view' = [mounted |-> TRUE, probe |-> o, element |-> el, inst |-> "none"]
                /\ UNCHANGED <<error, boundary>>
           ELSE /\ entryCalls + 1 < MaxEntryCalls
                /\ entryCalls' = entryCalls + 2
                /\ \E o2 \in Outcomes :
                     IF o2 = "throw" \/ o2 = "thenable"
                     THEN /\ \E m \in ErrVals :
                               /\ boundary' = getDerivedStateFromError(m)
                               /\ error' = componentDidCatch(m)
                          /\ view' = [mounted |-> FALSE, probe |-> o, element |-> el,
                                      inst |-> "failed"]
                     ELSE /\ view' = [mounted |-> TRUE, probe |-> o, element |-> el,
                                      inst |-> "ok"]
                          /\ UNCHANGED <<error, boundary>>
  /\ UNCHANGED <<mode, loaded, mounted, navStack, detectedNoView, runner, runs, timers,
                 onCloseId, closeCalls, lastClose>>
  /\ UNCHANGED notView

\* the effect of SafeViewRenderer (lines 730-735): onNoView()
NoViewDetected ==
  /\ mounted
  /\ view.mounted
  /\ view.element = "null"
  /\ detectedNoView' = TRUE
  /\ view' = [view EXCEPT !.mounted = FALSE]
  /\ UNCHANGED <<mode, loaded, mounted, error, navStack, boundary, runner, runs, timers,
                 onCloseId, closeCalls, entryCalls, lastClose>>
  /\ UNCHANGED notView

\* NoViewRunner mounts and its effect runs (lines 842-847, 658-677): fn()
\* is called; fate is how the call will end
RunnerStart ==
  /\ mounted
  /\ Branch = "no-view"
  /\ ~runner.mounted
  /\ entryCalls < MaxEntryCalls
  /\ entryCalls' = entryCalls + 1
  /\ runner' = [mounted |-> TRUE, status |-> "running", errorMsg |-> ""]
  /\ \E f \in Fates :
       runs' = Append(runs, [cancelled |-> FALSE, cb |-> onCloseId,
                             fate |-> f.fate, msg |-> f.msg])
  /\ UNCHANGED <<mode, loaded, mounted, error, navStack, detectedNoView, view, boundary,
                 timers, onCloseId, closeCalls, lastClose>>
  /\ UNCHANGED notView

\* the awaited fn() of run i settles (lines 663-673)
RunSettle(i) ==
  /\ i \in 1..Len(runs)
  /\ runs' = [k \in 1..(Len(runs) - 1) |-> IF k < i THEN runs[k] ELSE runs[k + 1]]
  /\ IF runs[i].cancelled
     THEN UNCHANGED <<runner, timers>>
     ELSE IF runs[i].fate = "ok"
     THEN /\ runner' = [runner EXCEPT !.status = "done"]
          /\ timers' = timers \cup {runs[i].cb}
     ELSE /\ runner' = [runner EXCEPT !.status = "error",
                                      !.errorMsg = Captured(runs[i].msg)]
          /\ UNCHANGED timers
  /\ UNCHANGED <<mode, loaded, mounted, error, navStack, detectedNoView, view, boundary,
                 onCloseId, closeCalls, entryCalls, lastClose>>
  /\ UNCHANGED notView

\* a 600 ms timer fires (line 666): the onClose it captured is invoked
TimerFire ==
  /\ \E cb \in timers : timers' = timers \ {cb}
  /\ closeCalls' = IF closeCalls < MaxCloses THEN closeCalls + 1 ELSE closeCalls
  /\ lastClose' = "timer"
  /\ UNCHANGED <<mode, loaded, mounted, error, navStack, detectedNoView, view, boundary,
                 runner, runs, onCloseId, entryCalls>>
  /\ UNCHANGED notView

\* the host renders ExtensionView with a new onClose function: the effect
\* of a mounted NoViewRunner is cleaned up and run again (deps, line 677)
OnCloseChanges ==
  /\ mounted
  /\ onCloseId < MaxIds
  /\ onCloseId' = onCloseId + 1
  /\ IF runner.mounted
     THEN /\ entryCalls < MaxEntryCalls
          /\ entryCalls' = entryCalls + 1
          /\ \E f \in Fates :
               runs' = Append(CancelAll(runs),
                              [cancelled |-> FALSE, cb |-> onCloseId + 1,
                               fate |-> f.fate, msg |-> f.msg])
     ELSE UNCHANGED <<entryCalls, runs>>
  /\ UNCHANGED <<mode, loaded, mounted, error, navStack, detectedNoView, view, boundary,
                 runner, timers, closeCalls, lastClose>>
  /\ UNCHANGED notView

\* the host unmounts ExtensionView: every effect is cleaned up (line 676)
Teardown ==
  /\ mounted
  /\ mounted' = FALSE
  /\ runs' = CancelAll(runs)
  /\ runner' = [runner EXCEPT !.mounted = FALSE]
  /\ view' = [view EXCEPT !.mounted = FALSE]
  /\ UNCHANGED <<mode, loaded, error, navStack, detectedNoView, boundary, timers,
                 onCloseId, closeCalls, entryCalls, lastClose>>
  /\ UNCHANGED notView

\* the state updater of push (line 766): [...prev, element]
push(stk, element) == Append(stk, element)

\* the state updater of pop (lines 770-775): the next stack, and whether
\* onClose() is called
popKeepsLast(stk) ==
  IF Len(stk) > 1
  THEN [stack |-> SubSeq(stk, 1, Len(stk) - 1), close |-> FALSE]
  ELSE [stack |-> stk, close |-> TRUE]
pop(stk) ==
  IF Len(stk) > 0
  THEN [stack |-> SubSeq(stk, 1, Len(stk) - 1), close |-> FALSE]
  ELSE [stack |-> stk, close |-> TRUE]

\* push (lines 765-767); SafeViewRenderer gives way to the pushed frame
Push ==
  /\ HoldsNavigation
  /\ Len(navStack) < MaxStack
  /\ \E f \in {"A", "B"} : navStack' = push(navStack, f)
  /\ view' = [view EXCEPT !.mounted = FALSE]
  /\ UNCHANGED <<mode, loaded, mounted, error, detectedNoView, boundary, runner, runs,
                 timers, onCloseId, closeCalls, entryCalls, lastClose>>
  /\ UNCHANGED notView

\* pop (lines 769-776)
Pop ==
  /\ HoldsNavigation
  /\ navStack' = pop(navStack).stack
  /\ IF pop(navStack).close
     THEN /\ closeCalls < MaxCloses
          /\ closeCalls' = closeCalls + 1
          /\ lastClose' = "pop"
     ELSE UNCHANGED <<closeCalls, lastClose>>
  /\ UNCHANGED <<mode, loaded, mounted, error, detectedNoView, view, boundary, runner,
                 runs, timers, onCloseId, entryCalls>>
  /\ UNCHANGED notView

\* a component of the extension throws while rendering: the boundary
\* stores the error and reports it (lines 381-387, 856)
RenderThrows ==
  /\ ContentRendered
  /\ \E m \in ErrVals :
       /\ boundary' = getDerivedStateFromError(m)
       /\ error' = componentDidCatch(m)
  /\ view' = [view EXCEPT !.mounted = FALSE]
  /\ UNCHANGED <<mode, loaded, mounted, navStack, detectedNoView, runner, runs, timers,
                 onCloseId, closeCalls, entryCalls, lastClose>>
  /\ UNCHANGED notView

\* what an Escape keydown can have as its target: an HTMLInputElement, an
\* HTMLTextAreaElement, anything else
Targets == {"body", "input", "textarea"}

\* the handler's test for an Escape keydown (lines 784-789)
EscapeClosesAnyTarget(stk, target) == Len(stk) = 0
EscapeCloses(stk, target) ==
  /\ Len(stk) = 0
  /\ target # "input"
  /\ target # "textarea"

\* a keydown of Escape reaches the window handler (lines 781-796)
Escape(target) ==
  /\ mounted
  /\ IF EscapeCloses(navStack, target)
     THEN /\ closeCalls < MaxCloses
          /\ closeCalls' = closeCalls + 1
          /\ lastClose' = "escape"
     ELSE UNCHANGED <<closeCalls, lastClose>>
  /\ UNCHANGED <<mode, loaded, mounted, error, navStack, detectedNoView, view, boundary,
                 runner, runs, timers, onCloseId, entryCalls>>
  /\ UNCHANGED notView

\* the user clicks the button of the error panel, of the load-failed panel
\* or of NoViewRunner's error display (lines 803, 825, 695)
ClickClose ==
  /\ mounted
  /\ \/ Branch = "error-panel"
     \/ Branch = "load-failed"
     \/ Branch = "no-view" /\ runner.mounted /\ runner.status = "error"
  /\ closeCalls < MaxCloses
  /\ closeCalls' = closeCalls + 1
  /\ lastClose' = "button"
  /\ UNCHANGED <<mode, loaded, mounted, error, navStack, detectedNoView, view, boundary,
                 runner, runs, timers, onCloseId, entryCalls>>
  /\ UNCHANGED notView

(***************************************************************************)
(* SpecView: one session, opened with any declared mode, loaded or not.    *)
(***************************************************************************)
InitView ==
  /\ IdleFs
  /\ IdleHost
  /\ IdleList
  /\ IdleLoad
  /\ mode \in {"view", "no-view", "menu-bar"}
  /\ loaded \in BOOLEAN
  /\ FreshView

NextView ==
  \/ Probe
  \/ NoViewDetected
  \/ RunnerStart
  \/ \E i \in 1..MaxEntryCalls : RunSettle(i)
  \/ TimerFire
  \/ OnCloseChanges
  \/ Teardown
  \/ Push
  \/ Pop
  \/ RenderThrows
  \/ \E target \in Targets : Escape(target)
  \/ ClickClose

SpecView == InitView /\ [][NextView]_vars

\* a timer the event loop holds does fire; when an entry call completes is
\* up to the extension, and what the user and the host do is up to them
SpecViewLive == SpecView /\ WF_vars(TimerFire)

(***************************************************************************)
(* Claims about the Command Lifecycle Controller (SpecView).               *)
(***************************************************************************)
\* C8: a command declared `view` whose bundle loaded is reclassified to
\* no-view exactly when the probe call returned a thenable; every other
\* return value, an empty (null) render result included, keeps view mode.
C8_ReclassifiedOnlyOnThenable ==
  (mode = "view" /\ loaded /\ view.probe # "none") =>
    /\ detectedNoView => view.probe = "thenable"
    /\ (view.mounted /\ view.probe = "thenable") => ENABLED NoViewDetected

\* C9: when the entry function throws during the probe the lifecycle stays
\* in view mode, is not reclassified, is in no error state because of the
\* probe, and the entry is rendered as a component by normal instantiation.
C9_ProbeThrowRendersComponent ==
  view.probe = "throw" =>
    /\ ~detectedNoView
    /\ ~IsNoView
    /\ view.element = "undefined"
    /\ view.inst # "none"
    /\ view.inst = "ok" /\ view.mounted =>
         (Branch = "view" /\ error = NoError /\ boundary = NoError)
    /\ view.inst = "failed" => boundary # NoError

\* the probe threw, <Component /> was instantiated and is on screen
C9_Witness ==
  /\ view.probe = "throw"
  /\ view.mounted
  /\ view.inst = "ok"
  /\ Branch = "view"
  /\ entryCalls = 2

\* C10: when a no-view entry call rejects or throws and the lifecycle has
\* not been torn down, the lifecycle is in no-view-error with the
\* rejection's message ("boom" for "boom"); from that state onClose is
\* invoked only by an explicit user dismissal, never by a timer.
C10_ErrorWaitsForDismissal ==
  [][/\ \A i \in 1..Len(runs) :
          (RunSettle(i) /\ runs[i].fate = "reject" /\ ~runs[i].cancelled /\ mounted) =>
            /\ runner'.status = "error"
            /\ runs[i].msg = "boom" => runner'.errorMsg = "boom"
     /\ (mounted /\ runner.mounted /\ runner.status = "error" /\ closeCalls' > closeCalls) =>
          lastClose' \in {"button", "escape"}]_vars

\* C11: when the entry call of a no-view command completes successfully and
\* the lifecycle is not torn down, the runner goes from running to done and
\* the 600 ms timer is set; a pending timer eventually invokes onClose; the
\* timer never invokes onClose unless the runner shows done.
C11_SuccessThenAutoClose ==
  /\ [][\A i \in 1..Len(runs) :
          (RunSettle(i) /\ runs[i].fate = "ok" /\ mounted /\ runner.mounted) =>
            /\ runner.status = "running"
            /\ runner'.status = "done"
            /\ runs[i].cb \in timers']_vars
  /\ [][(closeCalls' > closeCalls /\ lastClose' = "timer") => runner.status = "done"]_vars
  /\ (timers # {}) ~> (lastClose = "timer")

\* C12: once the lifecycle is torn down, the resolution or rejection of a
\* no-view entry call that was outstanding changes neither the runner's
\* status nor its error message nor ExtensionView's error, and sets no timer.
C12_SettleAfterTeardownIgnored ==
  [][\A i \in 1..Len(runs) :
       (RunSettle(i) /\ ~mounted) =>
         /\ runner' = runner
         /\ timers' = timers
         /\ error' = error
         /\ closeCalls' = closeCalls]_vars

\* the only entry call of a no-view session settled after the teardown
C12_Witness ==
  /\ ~mounted
  /\ Branch = "no-view"
  /\ entryCalls = 1
  /\ runs = <<>>
  /\ runner.status = "running"
  /\ timers = {}
  /\ closeCalls = 0

\* C13: a push appends one frame and does not close; a pop on a non-empty
\* stack removes exactly the top frame and does not close; a pop on the
\* empty stack invokes onClose and leaves the stack empty.  Hence N pushes
\* and N pops return to the empty stack without a close, and the (N+1)-th
\* pop closes.
C13_PushPopBalance ==
  [][/\ Push =>
          /\ Len(navStack') = Len(navStack) + 1
          /\ SubSeq(navStack', 1, Len(navStack)) = navStack
          /\ closeCalls' = closeCalls
     /\ (Pop /\ navStack # <<>>) =>
          /\ Len(navStack') = Len(navStack) - 1
          /\ navStack = Append(navStack', navStack[Len(navStack)])
          /\ closeCalls' = closeCalls
     /\ (Pop /\ navStack = <<>>) =>
          /\ navStack' = <<>>
          /\ closeCalls' = closeCalls + 1
          /\ lastClose' = "pop"
     /\ (closeCalls' > closeCalls /\ lastClose' = "pop") => navStack = <<>>]_vars

\* the root view was probed a second time, which in a session that is
\* neither reclassified, failed nor torn down happens only after pushes and
\* as many pops; the pop that followed on the empty stack closed
C13_Witness ==
  /\ mounted
  /\ mode = "view"
  /\ ~detectedNoView
  /\ boundary = NoError
  /\ view.mounted
  /\ view.probe = "element"
  /\ entryCalls = 2
  /\ navStack = <<>>
  /\ closeCalls = 1
  /\ lastClose = "pop"

\* C18: a command declared `no-view` or `menu-bar` whose bundle loaded is
\* run as no-view: SafeViewRenderer never probes it, the view branch is
\* never rendered, and while the session is mounted the runner is mounted
\* or about to be.
C18_DeclaredNoViewNeverProbed ==
  (mode \in {"no-view", "menu-bar"} /\ loaded) =>
    /\ view.probe = "none"
    /\ ~view.mounted
    /\ Branch = "no-view"
    /\ navStack = <<>>
    /\ (mounted /\ entryCalls < MaxEntryCalls) => (runner.mounted \/ ENABLED RunnerStart)

\* a menu-bar command ran in the runner to its end
C18_Witness ==
  /\ mode = "menu-bar"
  /\ loaded
  /\ runner.mounted
  /\ runner.status = "done"
  /\ entryCalls = 1
  /\ view.probe = "none"

\* an error panel is on screen: ExtensionView's (lines 798-818) or the
\* boundary's own (lines 390-402)
PanelShown ==
  \/ Branch = "error-panel"
  \/ Branch = "view" /\ boundary # NoError

C20_EscapeClosesOnlyAtRoot ==
  /\ [][\A t \in Targets :
          Escape(t) =>
            /\ navStack' = navStack
            /\ closeCalls' > closeCalls <=>
                 (navStack = <<>> /\ t \notin {"input", "textarea"})]_vars
  /\ [][(closeCalls' > closeCalls /\ lastClose' = "escape") => navStack = <<>>]_vars
  /\ []((mounted /\ navStack = <<>> /\ closeCalls < MaxCloses) =>
          ENABLED (Escape("body") /\ closeCalls' = closeCalls + 1))

\* Escape closed the session after the stack had been pushed and popped
\* back to empty
C20_Witness ==
  /\ mounted
  /\ mode = "view"
  /\ ~detectedNoView
  /\ boundary = NoError
  /\ entryCalls = 2
  /\ view.probe = "element"
  /\ navStack = <<>>
  /\ closeCalls = 1
  /\ lastClose = "escape"

\* the state of the lifecycle, in the spec's terms; classification of a
\* view command (the probe and a pending reclassification) counts as loading
LifecycleState ==
  IF ~mounted THEN "closed"
  ELSE IF Branch = "load-failed" THEN "load-failed"
  ELSE IF Branch = "error-panel" \/ boundary # NoError THEN "view-error"
  ELSE IF Branch = "no-view"
  THEN IF ~runner.mounted THEN "loading"
       ELSE IF runner.status = "running" THEN "no-view-running"
       ELSE IF runner.status = "done" THEN "no-view-done"
       ELSE "no-view-error"
  ELSE IF view.probe = "none" \/ (view.mounted /\ view.element = "null") THEN "loading"
  ELSE "view-ready"

\* the transitions of the stated machine, with the teardown by the host
\* from any state, the error containment of a view, and a view command
\* going back to classification
StatedTransitions ==
  {<<"loading", "view-ready">>, <<"loading", "no-view-running">>,
   <<"loading", "view-error">>, <<"view-ready", "loading">>,
   <<"view-ready", "view-error">>,
   <<"no-view-running", "no-view-done">>, <<"no-view-running", "no-view-error">>}
  \cup {<<st, "closed">> : st \in {"loading", "load-failed", "view-ready", "view-error",
                                   "no-view-running", "no-view-done", "no-view-error"}}

\* C21: when the load failed the lifecycle is in load-failed whatever the
\* declared mode, the entry function is never invoked, no no-view run is
\* started, and it stays there until the user closes; every change of the
\* lifecycle state in any session is a transition of the stated machine.
C21_LoadFailedAndStatedMachine ==
  /\ []((~loaded /\ mounted) =>
          /\ LifecycleState = "load-failed"
          /\ entryCalls = 0
          /\ runs = <<>> /\ timers = {}
          /\ ~runner.mounted /\ ~view.mounted
          /\ closeCalls > 0 => lastClose \in {"button", "escape"})
  /\ [][LifecycleState' # LifecycleState =>
          <<LifecycleState, LifecycleState'>> \in StatedTransitions]_vars

\* C27: in a session that runs as no-view, declared so or reclassified, the
\* entry function is invoked exactly once over the whole session, also when
\* the onClose handed to the runner changes identity.
C27_EntryInvokedOnce ==
  (loaded /\ IsNoView) =>
    /\ entryCalls <= 1
    /\ runner.mounted => entryCalls = 1

\* C28: once the lifecycle is torn down the runner never invokes the close
\* callback, also when the teardown falls between the success of the entry
\* call and the end of the 600 ms delay.
C28_NoCloseAfterTeardown ==
  [][~mounted => /\ timers' = timers
                 /\ closeCalls' = closeCalls
                 /\ lastClose' = lastClose]_vars

\* C29: two descriptors of one list() result whose (extension directory,
\* command name) pairs differ never carry the same id, and a further
\* discovery pass over the same root gives every pair the id it had.
C29_IdsUniquePerCommand ==
  /\ [](\A i, j \in 1..Len(listed.items) :
          <<listed.items[i].extName, listed.items[i].cmdName>> #
            <<listed.items[j].extName, listed.items[j].cmdName>>
          => listed.items[i].id # listed.items[j].id)
  /\ [][listed.done =>
          \A i \in 1..Len(listed.items) : \A j \in 1..Len(listed'.items) :
            (/\ listed.items[i].extName = listed'.items[j].extName
             /\ listed.items[i].cmdName = listed'.items[j].cmdName)
            => listed.items[i].id = listed'.items[j].id]_vars

====
